---- MODULE Spec2Model ----
(***************************************************************************)
(* Model of the tournament score server (src/server.js): the SQLite table  *)
(* tournament_scores, the connection state the handlers read back          *)
(* (last_insert_rowid), the wall clock behind CURRENT_TIMESTAMP, and the   *)
(* Express handlers.  A handler that writes runs in two steps, as in the   *)
(* code: the synchronous part (validation, parameter defaulting, db.run    *)
(* queues the statement) and the statement's execution with its callback.  *)
(* Every SQL statement is atomic.                                          *)
(***************************************************************************)
EXTENDS Integers, Sequences, FiniteSets, TLC

VARIABLES tournament_scores, sqlite_sequence, last_insert_rowid, now, conn

vars == <<tournament_scores, sqlite_sequence, last_insert_rowid, now, conn>>

(***************************************************************************)
(* Bounds of the model.                                                    *)
(***************************************************************************)
MaxClock == 1
MaxId == 3
MaxLimit == 2

Slots == {1, 2}
RegNumbers == {"A1", "B1"}
Scores == {-1, 0, 1}

(***************************************************************************)
(* Program constants.                                                      *)
(***************************************************************************)
DefaultLimit == 100
ADMIN_KEY == "IEEE2025ADMIN"
Anonymous == "Anonymous"

(***************************************************************************)
(* JavaScript values of a request: a string field, a number field.         *)
(***************************************************************************)
UndefS == [t |-> "undefined", s |-> ""]
Str(x) == [t |-> "string", s |-> x]
UndefN == [t |-> "undefined", n |-> 0]
NullN == [t |-> "null", n |-> 0]
Num(x) == [t |-> "number", n |-> x]

\* JavaScript truthiness: undefined, null, "" and 0 are falsy.
TruthyS(x) == x.t = "string" /\ x.s # ""
TruthyN(x) == x.t = "number" /\ x.n # 0

\* x || d for a string field and for a number field.
OrS(x, d) == IF TruthyS(x) THEN x.s ELSE d
OrN(x, d) == IF TruthyN(x) THEN x.n ELSE d

\* JSON.stringify(levelBreakdown || {}) and JSON.parse(row.level_breakdown || '{}'):
\* an object is a token, its JSON text wraps the token.
EmptyObject == "{}"
JSONstringify(o) == [json |-> o]
JSONparse(j) == j.json

\* An SQL value of a nullable TEXT column, and of the bound final_score.
SqlNullS == [null |-> TRUE, s |-> ""]
SqlText(x) == [null |-> FALSE, s |-> x]
SqlNullN == [null |-> TRUE, n |-> 0]
SqlInt(x) == [null |-> FALSE, n |-> x]

\* node-sqlite3 binds undefined and null as NULL.
BindS(x) == IF x.t = "string" THEN SqlText(x.s) ELSE SqlNullS
BindN(x) == IF x.t = "number" THEN SqlInt(x.n) ELSE SqlNullN

Max(a, b) == IF a > b THEN a ELSE b
Min(a, b) == IF a < b THEN a ELSE b

(***************************************************************************)
(* Request bodies.  The optional fields of a submission and the address it *)
(* comes from (req.ip) travel together as one attempt; a body is a         *)
(* registration number, a score and an attempt.                            *)
(***************************************************************************)
Obj(x) == [t |-> "object", s |-> x]
OrObj(x, d) == IF x.t = "object" THEN x.s ELSE d

\* A request that carries no optional field.
NoAttempt ==
  [studentName |-> UndefS, levelsCompleted |-> UndefN, accuracyRate |-> UndefN,
   timeRemaining |-> UndefN, levelBreakdown |-> UndefS, sessionId |-> UndefS,
   ip |-> "10.0.0.2"]

Attempts ==
  { [studentName |-> Str("Ann"), levelsCompleted |-> Num(3), accuracyRate |-> Num(90),
     timeRemaining |-> Num(7), levelBreakdown |-> Obj("L3"), sessionId |-> Str("s1"),
     ip |-> "10.0.0.1"],
    NoAttempt }

RegInputs == {UndefS, Str("")} \cup {Str(k) : k \in RegNumbers}

Body(r, f, a) == [registrationNumber |-> r, finalScore |-> f, attempt |-> a]

\* Every submission with a registration number and a score, and the
\* submissions that lack one of the two.
Bodies ==
  { Body(Str(k), Num(x), a) : k \in RegNumbers, x \in Scores, a \in Attempts }
  \cup { Body(r, Num(1), NoAttempt) : r \in {UndefS, Str("")} }
  \cup { Body(Str(k), f, NoAttempt) : k \in RegNumbers, f \in {UndefN, NullN} }

(***************************************************************************)
(* Statements queued on the connection, and responses.                     *)
(***************************************************************************)
NoParams ==
  [registration_number |-> "", student_name |-> "", final_score |-> SqlNullN,
   levels_completed |-> 0, accuracy_rate |-> 0, time_remaining |-> 0,
   level_breakdown |-> JSONstringify(EmptyObject), ip_address |-> "",
   session_id |-> SqlNullS]

NoStmt == [kind |-> "none", params |-> NoParams]

\* A query-string parameter: absent, or a text (a sequence of characters).
UndefQ == [t |-> "undefined", s |-> <<>>]
QStr(x) == [t |-> "string", s |-> x]

\* What a client asked: the route and the inputs the handler reads.
NoReq ==
  [op |-> "none", registrationNumber |-> UndefS, finalScore |-> UndefN,
   attempt |-> NoAttempt, adminKey |-> UndefS, limit |-> UndefQ, offset |-> UndefQ]

\* What the handler answered: the HTTP status and the fields of the JSON body.
NoRes ==
  [status |-> 0, scoreId |-> 0, deletedRecords |-> 0, leaderboard |-> <<>>,
   total |-> 0, student |-> <<>>, stats |-> <<>>, exportDate |-> 0,
   totalRecords |-> 0, data |-> <<>>]
Res(st) == [NoRes EXCEPT !.status = st]

\* conn[s] is connection s: the statement it has queued, its request and the
\* response it got.
Queued(rq, st) == [stmt |-> st, req |-> rq, res |-> NoRes]
Answered(rq, rs) == [stmt |-> NoStmt, req |-> rq, res |-> rs]

Idle(s) == conn[s].stmt.kind = "none"

\* The parameter array handed to db.run(upsertQuery, [...]).
upsertParams(body) ==
  [registration_number |-> body.registrationNumber.s,
   student_name |-> OrS(body.attempt.studentName, Anonymous),
   final_score |-> BindN(body.finalScore),
   levels_completed |-> OrN(body.attempt.levelsCompleted, 0),
   accuracy_rate |-> OrN(body.attempt.accuracyRate, 0),
   time_remaining |-> OrN(body.attempt.timeRemaining, 0),
   level_breakdown |-> JSONstringify(OrObj(body.attempt.levelBreakdown, EmptyObject)),
   ip_address |-> body.attempt.ip,
   session_id |-> BindS(body.attempt.sessionId)]

\* The validation of POST /api/submit-score.
submitValid(body) ==
  ~(~TruthyS(body.registrationNumber) \/ body.finalScore.t = "undefined")

(***************************************************************************)
(* The table and the upsert statement.                                     *)
(***************************************************************************)
RowsOf(t, reg) == {r \in t : r.registration_number = reg}

\* VALUES (...) of a fresh row: id from AUTOINCREMENT, completion_time from
\* its DEFAULT CURRENT_TIMESTAMP.
insertedRow(p, id, ts) ==
  [id |-> id, registration_number |-> p.registration_number,
   student_name |-> p.student_name, final_score |-> p.final_score.n,
   levels_completed |-> p.levels_completed, accuracy_rate |-> p.accuracy_rate,
   time_remaining |-> p.time_remaining, level_breakdown |-> p.level_breakdown,
   completion_time |-> ts, ip_address |-> p.ip_address, session_id |-> p.session_id]

\* A merge that stores the incoming score whatever the stored one is.
updatedRow_overwrite(r, p, ts) ==
  [r EXCEPT !.student_name = p.student_name,
            !.final_score = p.final_score.n,
            !.levels_completed = p.levels_completed,
            !.accuracy_rate = p.accuracy_rate,
            !.time_remaining = p.time_remaining,
            !.level_breakdown = p.level_breakdown,
            !.completion_time = ts,
            !.ip_address = p.ip_address,
            !.session_id = p.session_id]

\* A merge that keeps the attempt of the best score: a submission that does
\* not raise the score changes the time stamp only.
updatedRow_keepBest(r, p, ts) ==
  IF p.final_score.n > r.final_score
    THEN [r EXCEPT !.student_name = p.student_name,
                   !.final_score = p.final_score.n,
                   !.levels_completed = p.levels_completed,
                   !.accuracy_rate = p.accuracy_rate,
                   !.time_remaining = p.time_remaining,
                   !.level_breakdown = p.level_breakdown,
                   !.completion_time = ts,
                   !.ip_address = p.ip_address,
                   !.session_id = p.session_id]
    ELSE [r EXCEPT !.completion_time = ts]

\* A merge that moves the time stamp only when the score is raised.
updatedRow_keepTime(r, p, ts) ==
  [r EXCEPT !.student_name = p.student_name,
            !.final_score = IF p.final_score.n > r.final_score
                              THEN p.final_score.n ELSE r.final_score,
            !.levels_completed = p.levels_completed,
            !.accuracy_rate = p.accuracy_rate,
            !.time_remaining = p.time_remaining,
            !.level_breakdown = p.level_breakdown,
            !.completion_time = IF p.final_score.n > r.final_score
                                  THEN ts ELSE r.completion_time,
            !.ip_address = p.ip_address,
            !.session_id = p.session_id]

\* ON CONFLICT(registration_number) DO UPDATE SET ...
updatedRow(r, p, ts) ==
  [r EXCEPT !.student_name = p.student_name,
            !.final_score = IF p.final_score.n > r.final_score
                              THEN p.final_score.n ELSE r.final_score,
            !.levels_completed = p.levels_completed,
            !.accuracy_rate = p.accuracy_rate,
            !.time_remaining = p.time_remaining,
            !.level_breakdown = p.level_breakdown,
            !.completion_time = ts,
            !.ip_address = p.ip_address,
            !.session_id = p.session_id]

\* A table without the UNIQUE constraint: no insert ever conflicts.
upsertConflict_never(t, p) == FALSE

\* The UNIQUE constraint on registration_number decides between the two arms.
upsertConflict(t, p) == RowsOf(t, p.registration_number) # {}

\* An update arm without its conflict target: the time stamp of every row is
\* refreshed.
upsertQuery_everyRow(t, p, id, ts) ==
  IF upsertConflict(t, p)
    THEN {IF r.registration_number = p.registration_number
            THEN updatedRow(r, p, ts) ELSE [r EXCEPT !.completion_time = ts] : r \in t}
    ELSE t \cup {insertedRow(p, id, ts)}

\* INSERT ... ON CONFLICT(registration_number) DO UPDATE ...: the update arm
\* touches the conflicting row only.
upsertQuery(t, p, id, ts) ==
  IF upsertConflict(t, p)
    THEN {IF r.registration_number = p.registration_number
            THEN updatedRow(r, p, ts) ELSE r : r \in t}
    ELSE t \cup {insertedRow(p, id, ts)}

(***************************************************************************)
(* POST /api/submit-score                                                  *)
(***************************************************************************)
submitReq(body) ==
  [NoReq EXCEPT !.op = "submit", !.registrationNumber = body.registrationNumber,
                !.finalScore = body.finalScore, !.attempt = body.attempt]

\* Synchronous part: validation, then db.run queues the upsert.
SubmitScore(s, body) ==
  /\ Idle(s)
  /\ IF submitValid(body)
       THEN conn' = [conn EXCEPT ![s] =
                       Queued(submitReq(body),
                              [kind |-> "upsert", params |-> upsertParams(body)])]
       ELSE conn' = [conn EXCEPT ![s] = Answered(submitReq(body), Res(400))]
  /\ UNCHANGED <<tournament_scores, sqlite_sequence, last_insert_rowid, now>>

\* The statement runs and its callback answers.  A NULL final_score violates
\* NOT NULL: the statement fails and changes nothing.  Otherwise the row is
\* inserted with the next AUTOINCREMENT id, or the conflicting row is updated;
\* on the update arm last_insert_rowid keeps its value, and the id drawn for
\* the abandoned insert is consumed all the same (SQLite draws the rowid
\* before it checks the UNIQUE index).
RunUpsert(s) ==
  LET p == conn[s].stmt.params IN
  /\ conn[s].stmt.kind = "upsert"
  /\ IF p.final_score.null
       THEN /\ conn' = [conn EXCEPT ![s] = Answered(conn[s].req, Res(500))]
            /\ UNCHANGED <<tournament_scores, sqlite_sequence, last_insert_rowid>>
       ELSE IF upsertConflict(tournament_scores, p)
         THEN /\ sqlite_sequence < MaxId
              /\ tournament_scores' = upsertQuery(tournament_scores, p, sqlite_sequence + 1, now)
              /\ sqlite_sequence' = sqlite_sequence + 1
              /\ UNCHANGED last_insert_rowid
              /\ conn' = [conn EXCEPT ![s] =
                   Answered(conn[s].req,
                            [Res(200) EXCEPT !.scoreId = last_insert_rowid])]
         ELSE /\ sqlite_sequence < MaxId
              /\ tournament_scores' = upsertQuery(tournament_scores, p, sqlite_sequence + 1, now)
              /\ sqlite_sequence' = sqlite_sequence + 1
              /\ last_insert_rowid' = sqlite_sequence + 1
              /\ conn' = [conn EXCEPT ![s] =
                   Answered(conn[s].req,
                            [Res(200) EXCEPT !.scoreId = sqlite_sequence + 1])]
  /\ UNCHANGED now

(***************************************************************************)
(* DELETE /api/admin/clear-all                                             *)
(***************************************************************************)
\* adminKey && adminKey !== 'IEEE2025ADMIN': a request without a key passes.
authorized_ifPresent(adminKey) == ~(TruthyS(adminKey) /\ adminKey # Str(ADMIN_KEY))

\* adminKey !== 'IEEE2025ADMIN'
authorized(adminKey) == ~(adminKey # Str(ADMIN_KEY))

KeyInputs == {UndefS, Str("guess"), Str(ADMIN_KEY)}

clearAllReq(adminKey) == [NoReq EXCEPT !.op = "clearAll", !.adminKey = adminKey]

\* Synchronous part: the key check, then db.run queues the DELETE.
ClearAll(s, adminKey) ==
  /\ Idle(s)
  /\ IF authorized(adminKey)
       THEN conn' = [conn EXCEPT ![s] =
                       Queued(clearAllReq(adminKey),
                              [kind |-> "clear", params |-> NoParams])]
       ELSE conn' = [conn EXCEPT ![s] = Answered(clearAllReq(adminKey), Res(403))]
  /\ UNCHANGED <<tournament_scores, sqlite_sequence, last_insert_rowid, now>>

\* A DELETE that spares the row inserted last.
clearQuery_spareLast(t) == {r \in t : \A x \in t : x.id <= r.id}

\* DELETE FROM tournament_scores
clearQuery(t) == {}

RunClearAll(s) ==
  /\ conn[s].stmt.kind = "clear"
  /\ tournament_scores' = clearQuery(tournament_scores)
  /\ conn' = [conn EXCEPT ![s] = Answered(conn[s].req, Res(200))]
  /\ UNCHANGED <<sqlite_sequence, last_insert_rowid, now>>

(***************************************************************************)
(* DELETE /api/admin/clear-student                                         *)
(***************************************************************************)
clearStudentReq(adminKey, registrationNumber) ==
  [NoReq EXCEPT !.op = "clearStudent", !.adminKey = adminKey,
                !.registrationNumber = registrationNumber]

ClearStudent(s, adminKey, registrationNumber) ==
  LET rq == clearStudentReq(adminKey, registrationNumber) IN
  /\ Idle(s)
  /\ IF ~authorized(adminKey)
       THEN conn' = [conn EXCEPT ![s] = Answered(rq, Res(403))]
       ELSE IF ~TruthyS(registrationNumber)
         THEN conn' = [conn EXCEPT ![s] = Answered(rq, Res(400))]
         ELSE conn' = [conn EXCEPT ![s] =
                Queued(rq, [kind |-> "delete",
                            params |-> [NoParams EXCEPT
                                          !.registration_number = registrationNumber.s]])]
  /\ UNCHANGED <<tournament_scores, sqlite_sequence, last_insert_rowid, now>>

\* The DELETE without its WHERE clause.
deleteQuery_everyRow(t, reg) == IF RowsOf(t, reg) = {} THEN t ELSE {}

\* DELETE FROM tournament_scores WHERE registration_number = ?
deleteQuery(t, reg) == t \ RowsOf(t, reg)

\* this.changes is the number of rows the DELETE removed.
RunClearStudent(s) ==
  LET reg == conn[s].stmt.params.registration_number
      changes == Cardinality(RowsOf(tournament_scores, reg)) IN
  /\ conn[s].stmt.kind = "delete"
  /\ tournament_scores' = deleteQuery(tournament_scores, reg)
  /\ conn' = [conn EXCEPT ![s] =
       Answered(conn[s].req,
                IF changes = 0 THEN Res(404)
                ELSE [Res(200) EXCEPT !.deletedRecords = changes])]
  /\ UNCHANGED <<sqlite_sequence, last_insert_rowid, now>>

(***************************************************************************)
(* GET /api/leaderboard                                                    *)
(***************************************************************************)
NaN == [nan |-> TRUE, n |-> 0]
Number(x) == [nan |-> FALSE, n |-> x]

DigitVal(c) ==
  CASE c = "0" -> 0 [] c = "1" -> 1 [] c = "2" -> 2 [] c = "3" -> 3 [] c = "4" -> 4
    [] c = "5" -> 5 [] c = "6" -> 6 [] c = "7" -> 7 [] c = "8" -> 8 [] c = "9" -> 9
    [] OTHER -> -1

DigitChar(d) ==
  CASE d = 0 -> "0" [] d = 1 -> "1" [] d = 2 -> "2" [] d = 3 -> "3" [] d = 4 -> "4"
    [] d = 5 -> "5" [] d = 6 -> "6" [] d = 7 -> "7" [] d = 8 -> "8" [] OTHER -> "9"

\* The value of the longest prefix of digits of cs, continuing from acc;
\* any is TRUE once a digit has been read.
RECURSIVE parseDigits(_, _, _)
parseDigits(cs, acc, any) ==
  IF cs = <<>> \/ DigitVal(Head(cs)) < 0
    THEN IF any THEN Number(acc) ELSE NaN
    ELSE parseDigits(Tail(cs), acc * 10 + DigitVal(Head(cs)), TRUE)

\* parseInt(x): an optional sign, then leading digits; NaN without a digit,
\* and for an absent parameter.
parseInt(q) ==
  IF q.t = "undefined" \/ q.s = <<>> THEN NaN
  ELSE IF Head(q.s) = "-"
    THEN LET v == parseDigits(Tail(q.s), 0, FALSE) IN
         IF v.nan THEN NaN ELSE Number(0 - v.n)
  ELSE IF Head(q.s) = "+" THEN parseDigits(Tail(q.s), 0, FALSE)
  ELSE parseDigits(q.s, 0, FALSE)

\* x || d on a number: NaN and 0 are falsy.
OrNumber(x, d) == IF x.nan \/ x.n = 0 THEN d ELSE x.n

\* ORDER BY final_score DESC, completion_time DESC: the later submission of
\* two equal scores first.
Before_latestFirst(a, b) ==
  \/ a.final_score > b.final_score
  \/ a.final_score = b.final_score /\ a.completion_time > b.completion_time
  \/ a.final_score = b.final_score /\ a.completion_time = b.completion_time
       /\ a.id < b.id

\* ORDER BY final_score DESC, completion_time ASC.  Rows equal on both keys
\* come out in rowid order: the scan runs over idx_final_score, whose equal
\* keys are in rowid order, and the sort of the second key is stable.
Before(a, b) ==
  \/ a.final_score > b.final_score
  \/ a.final_score = b.final_score /\ a.completion_time < b.completion_time
  \/ a.final_score = b.final_score /\ a.completion_time = b.completion_time
       /\ a.id < b.id

\* ROW_NUMBER() OVER (ORDER BY final_score DESC, completion_time ASC)
rowNumber(t, r) == 1 + Cardinality({x \in t : Before(x, r)})

\* The rows of t in ranking order.
ordered(t) ==
  [i \in 1..Cardinality(t) |-> CHOOSE r \in t : rowNumber(t, r) = i]

\* The columns the leaderboard selects, level_breakdown parsed by the handler.
leaderboardRow(t, r) ==
  [rank |-> rowNumber(t, r), registration_number |-> r.registration_number,
   student_name |-> r.student_name, final_score |-> r.final_score,
   levels_completed |-> r.levels_completed, accuracy_rate |-> r.accuracy_rate,
   time_remaining |-> r.time_remaining,
   level_breakdown |-> JSONparse(r.level_breakdown),
   completion_time |-> r.completion_time]

\* LIMIT ? OFFSET ?: a negative limit is no limit, a negative offset is 0.
limitOffset(seq, limit, offset) ==
  LET from == Max(offset, 0)
      upto == IF limit < 0 THEN Len(seq) ELSE Min(Len(seq), from + limit) IN
  [i \in 1..Max(upto - from, 0) |-> seq[from + i]]

leaderboardQuery(t, limit, offset) ==
  LET o == ordered(t) IN
  limitOffset([i \in 1..Len(o) |-> leaderboardRow(t, o[i])], limit, offset)

\* The response of the handler to ?limit=..&offset=.. on table t.
leaderboardResponse(t, limitQ, offsetQ) ==
  LET limit == OrNumber(parseInt(limitQ), DefaultLimit)
      offset == OrNumber(parseInt(offsetQ), 0)
      rows == leaderboardQuery(t, limit, offset) IN
  [Res(200) EXCEPT !.leaderboard = rows, !.total = Len(rows)]

NumberText(x) == QStr(<<DigitChar(x)>>)
LimitInputs ==
  {UndefQ, QStr(<<"x">>)} \cup {NumberText(x) : x \in 0..MaxLimit}
OffsetInputs == {UndefQ} \cup {NumberText(x) : x \in 0..MaxLimit}

\* The handler only parses its parameters before db.all, and the SELECT reads
\* the table as it is when it runs.
Leaderboard(s, limitQ, offsetQ) ==
  /\ Idle(s)
  /\ conn' = [conn EXCEPT ![s] =
       Answered([NoReq EXCEPT !.op = "leaderboard", !.limit = limitQ, !.offset = offsetQ],
                leaderboardResponse(tournament_scores, limitQ, offsetQ))]
  /\ UNCHANGED <<tournament_scores, sqlite_sequence, last_insert_rowid, now>>

(***************************************************************************)
(* GET /api/rank/:registrationNumber                                       *)
(***************************************************************************)
\* RANK() in place of ROW_NUMBER(): rows of equal score share a rank.
rankRow_byScore(t, r) ==
  [rank |-> 1 + Cardinality({x \in t : x.final_score > r.final_score}),
   registration_number |-> r.registration_number,
   student_name |-> r.student_name, final_score |-> r.final_score,
   levels_completed |-> r.levels_completed, accuracy_rate |-> r.accuracy_rate,
   time_remaining |-> r.time_remaining, completion_time |-> r.completion_time]

\* The columns the rank query selects.
rankRow(t, r) ==
  [rank |-> rowNumber(t, r), registration_number |-> r.registration_number,
   student_name |-> r.student_name, final_score |-> r.final_score,
   levels_completed |-> r.levels_completed, accuracy_rate |-> r.accuracy_rate,
   time_remaining |-> r.time_remaining, completion_time |-> r.completion_time]

\* SELECT ... FROM (ranked_scores) WHERE registration_number = ?; db.get
\* hands over the first row, if any.
rankQuery(t, reg) ==
  LET o == ordered(t)
      hits == {i \in 1..Len(o) : o[i].registration_number = reg} IN
  IF hits = {} THEN <<>>
  ELSE <<rankRow(t, o[CHOOSE i \in hits : \A j \in hits : i <= j])>>

rankResponse(t, reg) ==
  LET row == rankQuery(t, reg) IN
  IF row = <<>> THEN Res(404) ELSE [Res(200) EXCEPT !.student = row]

Rank(s, registrationNumber) ==
  /\ Idle(s)
  /\ conn' = [conn EXCEPT ![s] =
       Answered([NoReq EXCEPT !.op = "rank", !.registrationNumber = Str(registrationNumber)],
                rankResponse(tournament_scores, registrationNumber))]
  /\ UNCHANGED <<tournament_scores, sqlite_sequence, last_insert_rowid, now>>

(***************************************************************************)
(* GET /api/stats                                                          *)
(***************************************************************************)
\* The result of AVG: NULL, or the quotient num / den of the sum and the
\* number of rows.
SqlNullAvg == [null |-> TRUE, num |-> 0, den |-> 1]
SqlAvg(sum, count) == [null |-> FALSE, num |-> sum, den |-> count]

\* The sum of column c over the rows of t.
RECURSIVE sumColumn(_, _)
sumColumn(t, c) ==
  IF t = {} THEN 0
  ELSE LET r == CHOOSE x \in t : TRUE IN r[c] + sumColumn(t \ {r}, c)

\* AVG(c) and MAX(c): NULL over no rows.
AVG(t, c) == IF t = {} THEN SqlNullAvg ELSE SqlAvg(sumColumn(t, c), Cardinality(t))
MAX(t, c) ==
  IF t = {} THEN SqlNullN
  ELSE SqlInt(CHOOSE x \in {r[c] : r \in t} : \A r \in t : r[c] <= x)

\* The aggregates wrapped in COALESCE(.., 0).
statsQuery_coalesce(t) ==
  [total_participants |-> Cardinality(t),
   highest_score |-> IF t = {} THEN SqlInt(0) ELSE MAX(t, "final_score"),
   average_score |-> IF t = {} THEN SqlAvg(0, 1) ELSE AVG(t, "final_score"),
   average_levels_completed |->
     IF t = {} THEN SqlAvg(0, 1) ELSE AVG(t, "levels_completed"),
   average_accuracy |-> IF t = {} THEN SqlAvg(0, 1) ELSE AVG(t, "accuracy_rate")]

\* SELECT COUNT(*), MAX(final_score), AVG(final_score),
\* AVG(levels_completed), AVG(accuracy_rate) FROM tournament_scores
statsQuery(t) ==
  [total_participants |-> Cardinality(t),
   highest_score |-> MAX(t, "final_score"),
   average_score |-> AVG(t, "final_score"),
   average_levels_completed |-> AVG(t, "levels_completed"),
   average_accuracy |-> AVG(t, "accuracy_rate")]

\* res.json({ success: true, stats: row })
statsResponse(t) == [Res(200) EXCEPT !.stats = <<statsQuery(t)>>]

Stats(s) ==
  /\ Idle(s)
  /\ conn' = [conn EXCEPT ![s] =
       Answered([NoReq EXCEPT !.op = "stats"], statsResponse(tournament_scores))]
  /\ UNCHANGED <<tournament_scores, sqlite_sequence, last_insert_rowid, now>>

(***************************************************************************)
(* GET /api/admin/backup                                                   *)
(***************************************************************************)
\* ORDER BY completion_time DESC; rows of equal completion_time come out in
\* rowid order (the scan runs over idx_completion_time).
Later(a, b) ==
  \/ a.completion_time > b.completion_time
  \/ a.completion_time = b.completion_time /\ a.id < b.id

\* SELECT * FROM tournament_scores ORDER BY completion_time DESC
backupQuery(t) ==
  [i \in 1..Cardinality(t) |->
     CHOOSE r \in t : Cardinality({x \in t : Later(x, r)}) = i - 1]

\* { exportDate, totalRecords, data }, level_breakdown parsed in every row.
backupResponse(t, date) ==
  LET rows == backupQuery(t) IN
  [Res(200) EXCEPT
     !.exportDate = date,
     !.totalRecords = Len(rows),
     !.data = [i \in 1..Len(rows) |->
                 [rows[i] EXCEPT !.level_breakdown = JSONparse(rows[i].level_breakdown)]]]

backupReq(adminKey) == [NoReq EXCEPT !.op = "backup", !.adminKey = adminKey]

\* The key check, then db.all reads the table as it is when it runs.
Backup(s, adminKey) ==
  /\ Idle(s)
  /\ conn' = [conn EXCEPT ![s] =
       IF authorized(adminKey)
         THEN Answered(backupReq(adminKey), backupResponse(tournament_scores, now))
         ELSE Answered(backupReq(adminKey), Res(403))]
  /\ UNCHANGED <<tournament_scores, sqlite_sequence, last_insert_rowid, now>>

\* CURRENT_TIMESTAMP has a resolution of one second.
Tick ==
  /\ now < MaxClock
  /\ now' = now + 1
  /\ UNCHANGED <<tournament_scores, sqlite_sequence, last_insert_rowid, conn>>

Init ==
  /\ tournament_scores = {}
  /\ sqlite_sequence = 0
  /\ last_insert_rowid = 0
  /\ now = 0
  /\ conn = [s \in Slots |-> Answered(NoReq, NoRes)]

\* One client at a time: every request is answered before the next arrives.
Client == {1}

Next ==
  \/ \E s \in Client, body \in Bodies : SubmitScore(s, body)
  \/ \E s \in Client : RunUpsert(s)
  \/ \E s \in Client, k \in KeyInputs : ClearAll(s, k)
  \/ \E s \in Client : RunClearAll(s)
  \/ \E s \in Client, k \in KeyInputs, r \in RegInputs : ClearStudent(s, k, r)
  \/ \E s \in Client : RunClearStudent(s)
  \/ Tick

Spec == Init /\ [][Next]_vars

\* Requests in flight together: the queued statements run in any order
\* (the Database object is in its default, parallel mode).
\* The submissions that pass validation and bind a score, from one client.
ValidBodies ==
  { b \in Bodies : submitValid(b) /\ b.finalScore.t = "number"
                     /\ b.attempt.levelsCompleted.t = "number" }

ConcurrentBodies == {b \in ValidBodies : b.finalScore.n >= 0}

NextConcurrent ==
  \/ \E s \in Slots, body \in ConcurrentBodies : SubmitScore(s, body)
  \/ \E s \in Slots : RunUpsert(s)
  \/ \E s \in Slots : ClearAll(s, Str(ADMIN_KEY))
  \/ \E s \in Slots : RunClearAll(s)
  \/ \E s \in Slots, k \in RegNumbers : ClearStudent(s, Str(ADMIN_KEY), Str(k))
  \/ \E s \in Slots : RunClearStudent(s)
  \/ Tick

SpecConcurrent == Init /\ [][NextConcurrent]_vars

\* The ranking reads of one client, over the table its submissions and
\* deletions build.
NextRanking ==
  \/ \E s \in Client, body \in ValidBodies : SubmitScore(s, body)
  \/ \E s \in Client : RunUpsert(s)
  \/ \E s \in Client : ClearAll(s, Str(ADMIN_KEY))
  \/ \E s \in Client : RunClearAll(s)
  \/ \E s \in Client, k \in RegNumbers : ClearStudent(s, Str(ADMIN_KEY), Str(k))
  \/ \E s \in Client : RunClearStudent(s)
  \/ \E s \in Client, l \in LimitInputs, o \in OffsetInputs : Leaderboard(s, l, o)
  \/ \E s \in Client, k \in RegNumbers : Rank(s, k)
  \/ \E s \in Client : Stats(s)
  \/ Tick

SpecRanking == Init /\ [][NextRanking]_vars

\* The administrative routes of one client, with and without the key, over
\* the table its submissions build.
NextAdmin ==
  \/ \E s \in Client, body \in ValidBodies : SubmitScore(s, body)
  \/ \E s \in Client : RunUpsert(s)
  \/ \E s \in Client, k \in KeyInputs : ClearAll(s, k)
  \/ \E s \in Client : RunClearAll(s)
  \/ \E s \in Client, k \in KeyInputs, r \in RegInputs : ClearStudent(s, k, r)
  \/ \E s \in Client : RunClearStudent(s)
  \/ \E s \in Client, k \in KeyInputs : Backup(s, k)
  \/ Tick

SpecAdmin == Init /\ [][NextAdmin]_vars

\* Submissions of three students from one client: a submission meets the
\* records of two other keys.
FrameRegNumbers == RegNumbers \cup {"C1"}
FrameBodies == { Body(Str(k), Num(x), NoAttempt) : k \in FrameRegNumbers, x \in Scores }

NextFrame ==
  \/ \E s \in Client, body \in FrameBodies : SubmitScore(s, body)
  \/ \E s \in Client : RunUpsert(s)
  \/ Tick

SpecFrame == Init /\ [][NextFrame]_vars

(***************************************************************************)
(* Properties.                                                             *)
(***************************************************************************)
\* The step runs the upsert that connection s has queued, and it succeeds.
RanUpsert(s) ==
  /\ conn[s].stmt.kind = "upsert"
  /\ conn'[s].stmt.kind = "none"
  /\ conn'[s].res.status = 200

\* Connection s holds the answer st to a request of route op.
Got(s, op, st) == conn[s].req.op = op /\ conn[s].res.status = st

MaxOf(S) == CHOOSE x \in S : \A y \in S : y <= x

\* C1 (Monotonicity): every successful Submit(k, x) leaves k's record with
\* bestScore = x when it creates the record and with the maximum of the
\* stored bestScore and x when it merges, so that after Submits of s1..sn the
\* record holds max(s1..sn) whatever their order, and bestScore never
\* decreases from one merge to the next.
C1_Monotonic ==
  [][\A s \in Slots : RanUpsert(s) =>
       LET p == conn[s].stmt.params
           old == RowsOf(tournament_scores, p.registration_number)
           new == RowsOf(tournament_scores', p.registration_number) IN
       /\ new # {}
       /\ \A n \in new :
            /\ n.final_score = MaxOf({o.final_score : o \in old} \cup {p.final_score.n})
            /\ \A o \in old : n.final_score >= o.final_score]_vars

\* A Submit with a score below the stored one has been answered, and the
\* record still holds the higher score.
C1_Witness ==
  \E s \in Slots, r \in tournament_scores :
    /\ Got(s, "submit", 200)
    /\ r.registration_number = conn[s].req.registrationNumber.s
    /\ r.final_score > conn[s].req.finalScore.n

\* C2 (Serialized concurrent Submits): an upsert that was queued while other
\* requests were in flight merges into the record as it is when the statement
\* runs: the new bestScore is the maximum of the current one and the
\* submitted one, and a score that another connection's answered Submit has
\* put into the record is still there afterwards (no lost update).
C2_Serialized ==
  [][\A s \in Slots : RanUpsert(s) =>
       LET p == conn[s].stmt.params
           old == RowsOf(tournament_scores, p.registration_number)
           new == RowsOf(tournament_scores', p.registration_number) IN
       /\ Cardinality(new) = 1
       /\ \A n \in new :
            /\ n.final_score >= p.final_score.n
            /\ n.final_score \in {o.final_score : o \in old} \cup {p.final_score.n}
            /\ \A s2 \in Slots \ {s} :
                 ( /\ Got(s2, "submit", 200)
                   /\ conn[s2].req.registrationNumber.s = p.registration_number
                   /\ \E o \in old : o.final_score >= conn[s2].req.finalScore.n )
                 => n.final_score >= conn[s2].req.finalScore.n]_vars

\* Two connections have an answered Submit for the same key with different
\* scores, both on the same record (same identity), which holds the higher one.
C2_Witness ==
  \E s1, s2 \in Slots, r \in tournament_scores :
    /\ s1 # s2
    /\ Got(s1, "submit", 200) /\ Got(s2, "submit", 200)
    /\ conn[s1].req.registrationNumber = conn[s2].req.registrationNumber
    /\ r.registration_number = conn[s1].req.registrationNumber.s
    /\ conn[s1].req.finalScore.n > conn[s2].req.finalScore.n
    /\ r.final_score = conn[s1].req.finalScore.n
    /\ conn[s1].res.scoreId = r.id /\ conn[s2].res.scoreId = r.id

\* The value a submission gives for an optional number, a name, a breakdown:
\* the value itself, or the default of a field that is absent.
GivenN(x) == IF x.t = "number" THEN x.n ELSE 0
GivenName(x) == IF x.t = "string" THEN x.s ELSE "Anonymous"
GivenObject(x) == IF x.t = "object" THEN x.s ELSE "{}"

\* C3 (Overwrite-on-merge): after every Submit that merges into an existing
\* record, levelsCompleted, accuracyRate, timeRemaining, levelBreakdown and
\* displayName are those of that submission, also when its score is lower
\* than the stored bestScore.
C3_OverwriteOnMerge ==
  [][\A s \in Slots :
       (RanUpsert(s) /\ RowsOf(tournament_scores, conn[s].stmt.params.registration_number) # {}) =>
         LET a == conn[s].req.attempt IN
         \A n \in RowsOf(tournament_scores', conn[s].stmt.params.registration_number) :
           /\ n.levels_completed = GivenN(a.levelsCompleted)
           /\ n.accuracy_rate = GivenN(a.accuracyRate)
           /\ n.time_remaining = GivenN(a.timeRemaining)
           /\ JSONparse(n.level_breakdown) = GivenObject(a.levelBreakdown)
           /\ n.student_name = GivenName(a.studentName)]_vars

\* A Submit without optional fields and with a score below the stored one has
\* been answered: the record keeps the higher score and has the defaults of
\* that submission.
C3_Witness ==
  \E s \in Slots, r \in tournament_scores :
    /\ Got(s, "submit", 200)
    /\ r.registration_number = conn[s].req.registrationNumber.s
    /\ r.final_score > conn[s].req.finalScore.n
    /\ conn[s].req.attempt.levelsCompleted.t = "undefined"
    /\ r.levels_completed = 0 /\ r.student_name = "Anonymous"

\* C4 (Uniqueness): after every step the table holds at most one record per
\* registrationNumber, and a step that runs a successful Submit for k leaves
\* exactly one record of k.
C4_Unique ==
  [][/\ \A r1, r2 \in tournament_scores' :
          r1.registration_number = r2.registration_number => r1 = r2
     /\ \A s \in Slots : RanUpsert(s) =>
          Cardinality(RowsOf(tournament_scores', conn[s].stmt.params.registration_number)) = 1]_vars

\* Both connections have an answered Submit for the same key, and the table
\* holds one record of it.
C4_Witness ==
  \E s1, s2 \in Slots :
    /\ s1 # s2
    /\ Got(s1, "submit", 200) /\ Got(s2, "submit", 200)
    /\ conn[s1].req.registrationNumber = conn[s2].req.registrationNumber
    /\ Cardinality(RowsOf(tournament_scores, conn[s1].req.registrationNumber.s)) = 1

\* A submission whose registrationNumber is missing or empty, or whose
\* finalScore is missing or null.
MissingField(rq) ==
  \/ rq.registrationNumber.t = "undefined"
  \/ rq.registrationNumber.s = ""
  \/ rq.finalScore.t \in {"undefined", "null"}

\* C5 (Validation failure): a step that answers a Submit whose
\* registrationNumber is missing or empty, or whose finalScore is missing or
\* null, answers 400 and leaves the table as it was.
C5_InvalidArgument ==
  [][\A s \in Slots :
       ( /\ conn'[s] # conn[s]
         /\ conn'[s].req.op = "submit"
         /\ conn'[s].res.status # 0
         /\ MissingField(conn'[s].req) )
       => /\ conn'[s].res.status = 400
          /\ tournament_scores' = tournament_scores]_vars

\* The step runs the DELETE of every row that connection s has queued.
RanClearAll(s) == conn[s].stmt.kind = "clear" /\ conn'[s].stmt.kind = "none"

\* C6 (DeleteAll against Submits in flight): the DELETE of every row empties
\* the table whatever upserts are queued, and an upsert that runs when its
\* key has no record creates a fresh one, with bestScore the submitted score
\* and an identity no record had before; an upsert that runs always leaves
\* the record of its key in the table.
C6_ClearAllAtomic ==
  [][\A s \in Slots :
       /\ RanClearAll(s) => tournament_scores' = {}
       /\ RanUpsert(s) =>
            LET p == conn[s].stmt.params
                old == RowsOf(tournament_scores, p.registration_number)
                new == RowsOf(tournament_scores', p.registration_number) IN
            /\ new # {}
            /\ old = {} => \A n \in new :
                 /\ n.final_score = p.final_score.n
                 /\ n.id > sqlite_sequence
                 /\ n.completion_time = now]_vars

\* One connection has its DeleteAll answered, the other a Submit that ran
\* after it: the key has a record created by that Submit, later than a first
\* record, with the submitted score.
C6_Witness ==
  \E s1, s2 \in Slots, r \in tournament_scores :
    /\ Got(s1, "clearAll", 200) /\ Got(s2, "submit", 200)
    /\ tournament_scores = {r}
    /\ r.registration_number = conn[s2].req.registrationNumber.s
    /\ r.final_score = conn[s2].req.finalScore.n
    /\ r.id = conn[s2].res.scoreId /\ r.id > 1

\* C10 (Identity of the affected record): the scoreId a successful Submit(k)
\* returns is the id of k's record.
C10_ScoreIdIsRecord ==
  \A s \in Client :
    Got(s, "submit", 200) =>
      \E r \in RowsOf(tournament_scores, conn[s].req.registrationNumber.s) :
        conn[s].res.scoreId = r.id

\* The number of records, and the number a query text stands for.
Total == Cardinality(tournament_scores)
IsNumberText(q, x) == q = NumberText(x)

\* C7 (Pagination): with total records and 0 <= limit <= total, the page
\* Leaderboard(limit, 0) followed by the page Leaderboard(total - limit, limit)
\* is Leaderboard(total, 0).
C7_Pagination ==
  \A s \in Client, limit \in 0..Total :
    ( /\ Got(s, "leaderboard", 200)
      /\ IsNumberText(conn[s].req.limit, limit)
      /\ IsNumberText(conn[s].req.offset, 0) )
    => conn[s].res.leaderboard
         \o leaderboardResponse(tournament_scores, NumberText(Total - limit),
                                NumberText(limit)).leaderboard
       = leaderboardResponse(tournament_scores, NumberText(Total),
                             NumberText(0)).leaderboard

\* C8 (Strict total order): no two distinct records are equal on both
\* bestScore and lastSubmittedAt.
C8_StrictOrder ==
  \A r1, r2 \in tournament_scores :
    (r1.final_score = r2.final_score /\ r1.completion_time = r2.completion_time)
      => r1 = r2

\* C9 (RankOf consistency): the rank that RankOf(k) returns is the position
\* of k in Leaderboard(total, 0) and the rank that this leaderboard reports
\* for k; and every entry of an answered Leaderboard(total, 0) has the rank
\* that RankOf returns for its key.
C9_RankOfConsistent ==
  \A s \in Client :
    /\ Got(s, "rank", 200) =>
         LET full == leaderboardResponse(tournament_scores, NumberText(Total),
                                         NumberText(0)).leaderboard
             mine == conn[s].res.student[1] IN
         /\ mine.rank \in 1..Len(full)
         /\ full[mine.rank].registration_number = conn[s].req.registrationNumber.s
         /\ full[mine.rank].rank = mine.rank
    /\ ( /\ Got(s, "leaderboard", 200)
         /\ Total >= 1
         /\ IsNumberText(conn[s].req.limit, Total)
         /\ IsNumberText(conn[s].req.offset, 0) )
       => /\ Len(conn[s].res.leaderboard) = Total
          /\ \A i \in 1..Len(conn[s].res.leaderboard) :
               LET e == conn[s].res.leaderboard[i]
                   r == rankResponse(tournament_scores, e.registration_number) IN
               /\ r.status = 200
               /\ r.student[1].rank = i
               /\ e.rank = i

\* RankOf has answered rank 2 for a key whose record has the same score as
\* the record ranked first.
C9_Witness ==
  \E s \in Client, r1, r2 \in tournament_scores :
    /\ Got(s, "rank", 200)
    /\ conn[s].res.student[1].rank = 2
    /\ r2.registration_number = conn[s].req.registrationNumber.s
    /\ r1 # r2 /\ r1.final_score = r2.final_score

\* C11 (Tie-break): of two records with equal bestScore and different
\* lastSubmittedAt, the one submitted earlier has the smaller rank, in an
\* answered Leaderboard (where it also comes first) and in the ranks RankOf
\* gives for the two keys.
C11_TieBreak ==
  \A s \in Client :
    /\ Got(s, "leaderboard", 200) =>
         \A i, j \in 1..Len(conn[s].res.leaderboard) :
           LET a == conn[s].res.leaderboard[i]
               b == conn[s].res.leaderboard[j] IN
           (a.final_score = b.final_score /\ a.completion_time < b.completion_time)
             => a.rank < b.rank /\ i < j
    /\ Got(s, "rank", 200) =>
         LET mine == conn[s].res.student[1] IN
         \A r \in tournament_scores :
           (r.final_score = mine.final_score /\ r.completion_time # mine.completion_time)
             => LET other == rankResponse(tournament_scores, r.registration_number) IN
                /\ other.status = 200
                /\ (r.completion_time < mine.completion_time)
                     <=> (other.student[1].rank < mine.rank)

\* A Leaderboard has answered two records of the same score submitted at
\* different times: rank 1 goes to the earlier submission.
C11_Witness ==
  \E s \in Client :
    /\ Got(s, "leaderboard", 200)
    /\ Len(conn[s].res.leaderboard) = 2
    /\ conn[s].res.leaderboard[1].final_score = conn[s].res.leaderboard[2].final_score
    /\ conn[s].res.leaderboard[1].completion_time < conn[s].res.leaderboard[2].completion_time
    /\ conn[s].res.leaderboard[1].rank = 1 /\ conn[s].res.leaderboard[2].rank = 2

\* The step runs the DELETE of one key that connection s has queued.
RanClearStudent(s) == conn[s].stmt.kind = "delete" /\ conn'[s].stmt.kind = "none"

\* C12 (DeleteOne): the DELETE of key k removes k's record and reports one
\* removed record when k has a record; it answers NotFound and leaves the
\* table as it was when k has none; in both cases the records of the other
\* keys are as before and no record appears.
C12_DeleteOne ==
  [][\A s \in Slots : RanClearStudent(s) =>
       LET k == conn[s].req.registrationNumber.s IN
       /\ IF RowsOf(tournament_scores, k) # {}
            THEN /\ conn'[s].res.status = 200
                 /\ conn'[s].res.deletedRecords = 1
                 /\ RowsOf(tournament_scores', k) = {}
            ELSE /\ conn'[s].res.status = 404
                 /\ tournament_scores' = tournament_scores
       /\ \A r \in tournament_scores : r.registration_number # k => r \in tournament_scores'
       /\ tournament_scores' \subseteq tournament_scores]_vars

\* A DeleteOne has been answered with one removed record while the record of
\* another key is still in the table.
C12_Witness ==
  \E s \in Slots, r \in tournament_scores :
    /\ Got(s, "clearStudent", 200)
    /\ conn[s].res.deletedRecords = 1
    /\ r.registration_number # conn[s].req.registrationNumber.s
    /\ RowsOf(tournament_scores, conn[s].req.registrationNumber.s) = {}

\* C13 (Empty-store Stats): Stats over a table without records answers
\* successfully with count 0 and with the maximum and the three means null,
\* not zero.
C13_EmptyStats ==
  \A s \in Client :
    (conn[s].req.op = "stats" /\ tournament_scores = {}) =>
      /\ conn[s].res.status = 200
      /\ Len(conn[s].res.stats) = 1
      /\ LET row == conn[s].res.stats[1] IN
         /\ row.total_participants = 0
         /\ row.highest_score.null
         /\ row.average_score.null
         /\ row.average_levels_completed.null
         /\ row.average_accuracy.null

\* Stats has been answered over a table that held records and was emptied.
C13_Witness ==
  \E s \in Client :
    /\ Got(s, "stats", 200)
    /\ tournament_scores = {}
    /\ sqlite_sequence > 0

\* C14 (lastSubmittedAt): a step that runs a successful Submit for k, whether
\* it creates the record, raises its score or leaves the score unchanged,
\* sets k's lastSubmittedAt to the current time, and a step changes the
\* lastSubmittedAt of a key's record only by running a successful Submit for
\* that key; so the field is the time of the key's most recent successful
\* Submit.
C14_LastSubmittedAt ==
  [][/\ \A s \in Slots : RanUpsert(s) =>
          /\ RowsOf(tournament_scores', conn[s].stmt.params.registration_number) # {}
          /\ \A n \in RowsOf(tournament_scores', conn[s].stmt.params.registration_number) :
               n.completion_time = now
     /\ \A r \in tournament_scores, n \in tournament_scores' :
          ( /\ r.registration_number = n.registration_number
            /\ r.completion_time # n.completion_time )
          => \E s \in Slots :
               /\ RanUpsert(s)
               /\ conn[s].stmt.params.registration_number = r.registration_number
     /\ \A n \in tournament_scores' :
          RowsOf(tournament_scores, n.registration_number) = {}
          => \E s \in Slots :
               /\ RanUpsert(s)
               /\ conn[s].stmt.params.registration_number = n.registration_number]_vars

\* A Submit with a score below the stored one has been answered after the
\* clock advanced: the record keeps the higher score and carries the time of
\* this Submit.
C14_Witness ==
  \E s \in Slots, r \in tournament_scores :
    /\ Got(s, "submit", 200)
    /\ r.registration_number = conn[s].req.registrationNumber.s
    /\ r.final_score > conn[s].req.finalScore.n
    /\ now > 0 /\ r.completion_time = now

\* C15 (Leaderboard slice): Leaderboard(limit, offset) with limit >= 0 and
\* offset >= 0 answers exactly the positions offset+1 .. offset+limit of the
\* full ranking that exist, the i-th entry with rank offset + i; with
\* limit = 0 it answers no record.
C15_Slice ==
  \A s \in Client, limit \in 0..MaxLimit, offset \in 0..MaxLimit :
    ( /\ Got(s, "leaderboard", 200)
      /\ IsNumberText(conn[s].req.limit, limit)
      /\ IsNumberText(conn[s].req.offset, offset) )
    => LET full == ordered(tournament_scores)
           page == conn[s].res.leaderboard IN
       /\ Len(page) = Max(Min(Total, offset + limit) - offset, 0)
       /\ \A i \in 1..Len(page) :
            /\ page[i].rank = offset + i
            /\ page[i].registration_number = full[offset + i].registration_number

\* C16 (Score domain): every record's bestScore is an integer >= 0, whatever
\* Submits passed validation.
C16_ScoreDomain ==
  \A r \in tournament_scores : r.final_score \in Nat

\* The routes behind the admin key.
AdminOps == {"clearAll", "clearStudent", "backup"}

\* C17 (Admin gate): a step that takes a DeleteOne, DeleteAll or export
\* request whose key is absent or wrong answers it with 403 at once, without
\* queueing a statement, leaves the table as it was and puts no record and
\* no count of removed records into the response.
C17_AdminGate ==
  [][\A s \in Slots :
       ( /\ conn'[s] # conn[s]
         /\ conn'[s].req.op \in AdminOps
         /\ conn'[s].req.adminKey # Str(ADMIN_KEY) )
       => /\ conn'[s].stmt.kind = "none"
          /\ conn'[s].res = Res(403)
          /\ conn'[s].res.data = <<>>
          /\ conn'[s].res.deletedRecords = 0
          /\ tournament_scores' = tournament_scores]_vars

\* An export without a key has been refused while the table holds two
\* records.
C17_Witness ==
  \E s \in Client :
    /\ Got(s, "backup", 403)
    /\ conn[s].req.adminKey = UndefS
    /\ Total = 2

\* C18 (Frame of Submit): a step that runs a successful Submit for k leaves
\* the records of every other key as they were, creates and removes none of
\* them, and leaves any two of them in the same relative ranking order.
C18_SubmitFrame ==
  [][\A s \in Slots : RanUpsert(s) =>
       LET k == conn[s].stmt.params.registration_number
           others == {r \in tournament_scores : r.registration_number # k} IN
       /\ {r \in tournament_scores' : r.registration_number # k} = others
       /\ \A a, b \in others :
            (rowNumber(tournament_scores, a) < rowNumber(tournament_scores, b))
              <=> (rowNumber(tournament_scores', a) < rowNumber(tournament_scores', b))]_vars

\* A Submit has been answered for a key while two other keys have records,
\* and its record now stands between the two.
C18_Witness ==
  \E s \in Client, a, b, r \in tournament_scores :
    /\ Got(s, "submit", 200)
    /\ r.registration_number = conn[s].req.registrationNumber.s
    /\ a.registration_number # r.registration_number
    /\ b.registration_number # r.registration_number
    /\ Before(a, r) /\ Before(r, b)

\* C19 (A Submit that does not raise the score): a step that runs a
\* successful Submit(k, s) with s at most the stored bestScore leaves every
\* record that was ordered before k's ordered before it, puts k's record
\* behind every other record of the same bestScore submitted strictly
\* earlier than this step, and leaves k's rank as it was or worse.
C19_NoImprovement ==
  [][\A s \in Slots :
       \A o \in RowsOf(tournament_scores, conn[s].stmt.params.registration_number) :
         (RanUpsert(s) /\ conn[s].stmt.params.final_score.n <= o.final_score) =>
           \A n \in RowsOf(tournament_scores', o.registration_number) :
             /\ \A r \in tournament_scores \ {o} :
                  Before(r, o) => r \in tournament_scores' /\ Before(r, n)
             /\ \A r \in tournament_scores' \ {n} :
                  (r.final_score = n.final_score /\ r.completion_time < now)
                    => Before(r, n)
             /\ rowNumber(tournament_scores', n) >= rowNumber(tournament_scores, o)]_vars

\* A Submit below the stored score has been answered, and its record, which
\* was created first, now stands behind a record of the same score that was
\* created after it.
C19_Witness ==
  \E s \in Client, r, r2 \in tournament_scores :
    /\ Got(s, "submit", 200)
    /\ r.registration_number = conn[s].req.registrationNumber.s
    /\ r.final_score > conn[s].req.finalScore.n
    /\ r2.final_score = r.final_score
    /\ r2.id > r.id
    /\ Before(r2, r)

====
